---- MODULE Spec2Model ----
(***************************************************************************)
(* A model of the ColoringBook web app: the App component's state and its  *)
(* event handlers (src/App.tsx), the Gemini service wrappers               *)
(* (src/unnamed/part_000, imported as ./services/geminiService) and the    *)
(* HistoryPanel buttons (src/components/HistoryPanel.tsx).                 *)
(*                                                                         *)
(* A text is a sequence of characters.  Characters are kept by the class   *)
(* the code distinguishes: digits "1" "2", the dot ".", white space "SP"   *)
(* (space), "LF" and "CR" (line breaks), the quotes "LQ" (left curly),     *)
(* "RQ" (right curly) and "DQ" (straight), and letters.                    *)
(*                                                                         *)
(* One step of the model is one browser task: an event handler up to its   *)
(* first pending await, or the continuation that runs when a network call  *)
(* settles, with the re-render that follows it.                            *)
(***************************************************************************)
EXTENDS Integers, Sequences, FiniteSets, TLC

\* ------------------------------------------------------------ bounds

\* The user acts while the clock is below MaxTime; the calls then in flight
\* still settle and the batch in progress runs to its end.
MaxTime == 1

\* The largest number typed into the "Images:" input
MaxTyped == 6

\* ------------------------------------------------- program constants

\* [newHistoryItem, ...history].slice(0, 10)
HistoryCap == 10

\* Math.max(1, Math.min(5, ...))
MinImages == 1

MaxImages == 5

\* The longest title and the longest prompt of a one-item list typed in the
\* multi-prompt format
MaxItemText == 2

\* The longest one-line text typed
MaxLine == 5

\* let ai: GoogleGenAI | null = null: no client is cached.  A client is
\* named by its rank among the clients constructed.
NoClient == 0

\* ------------------------------------------------------------- texts

\* null, for a value that is otherwise a text (string | null)
Null == <<"null">>

Digits == {"1", "2"}

\* \s of the regular expression, and what String.prototype.trim removes
WhiteSpace == {"SP", "LF", "CR"}

\* [\r\n]; the characters "." does not match
LineBreaks == {"LF", "CR"}

\* [“"]
OpenQuotes == {"LQ", "DQ"}

\* [”"]
CloseQuotes == {"RQ", "DQ"}

\* The last index of the run of characters of class cls that starts at p
\* (p - 1 when text[p] is not of the class or p is past the end).
RECURSIVE RunEnd(_, _, _)
RunEnd(text, p, cls) ==
    IF p <= Len(text) /\ text[p] \in cls THEN RunEnd(text, p + 1, cls) ELSE p - 1

\* The last index of the run of characters outside cls that starts at p.
RECURSIVE RunEndNot(_, _, _)
RunEndNot(text, p, cls) ==
    IF p <= Len(text) /\ text[p] \notin cls THEN RunEndNot(text, p + 1, cls) ELSE p - 1

IsAt(text, p, cls) == p >= 1 /\ p <= Len(text) /\ text[p] \in cls

\* String.prototype.trim
RECURSIVE TrimLeft(_)
TrimLeft(text) ==
    IF text # <<>> /\ Head(text) \in WhiteSpace THEN TrimLeft(Tail(text)) ELSE text

RECURSIVE TrimRight(_)
TrimRight(text) ==
    IF text # <<>> /\ text[Len(text)] \in WhiteSpace
    THEN TrimRight(SubSeq(text, 1, Len(text) - 1))
    ELSE text

Trim(text) == TrimRight(TrimLeft(text))

\* ------------------------------------------------- parseMultiPrompts

(***************************************************************************)
(* /\d+\.\s*.*[\r\n]+[“"]([^”"]+)[”"]/ tried with \s* ending at e2 (the    *)
(* last white space taken, d + 1 when none), the digits ending at d and    *)
(* the dot at d + 1.  After \s* every later piece is forced: ".*" runs to  *)
(* the end of the line because a line break must follow it, [\r\n]+ takes  *)
(* the whole run of line breaks because a quote must follow it, and the    *)
(* group runs to the first closing quote.  The result is <<c, from, to>>:  *)
(* the closing quote's index and the group's bounds, or <<>>.              *)
(***************************************************************************)
MatchRest(text, e2) ==
    LET q == RunEndNot(text, e2 + 1, LineBreaks)
        r == RunEnd(text, q + 1, LineBreaks)
        c == RunEndNot(text, r + 2, CloseQuotes) + 1
    IN  IF /\ r >= q + 1
           /\ IsAt(text, r + 1, OpenQuotes)
           /\ c > r + 2
           /\ IsAt(text, c, CloseQuotes)
        THEN <<c, r + 2, c - 1>>
        ELSE <<>>

\* The match that starts at s, or <<>>: \d+ and \s* are greedy, so the
\* longest white space run that lets the rest match is the one taken.
MatchAt(text, s) ==
    LET d == RunEnd(text, s, Digits)
        w == RunEnd(text, d + 2, WhiteSpace)
        ok == {e2 \in (d + 1)..w : MatchRest(text, e2) # <<>>}
    IN  IF d >= s /\ IsAt(text, d + 1, {"."}) /\ ok # {}
        THEN MatchRest(text, CHOOSE e2 \in ok : \A x \in ok : x <= e2)
        ELSE <<>>

\* A variant: match[1] is pushed as matched, untrimmed
RECURSIVE MatchAllFromUntrimmed(_, _)
MatchAllFromUntrimmed(text, pos) ==
    IF pos > Len(text) THEN <<>>
    ELSE LET m == MatchAt(text, pos)
         IN  IF m = <<>> THEN MatchAllFromUntrimmed(text, pos + 1)
             ELSE LET group == SubSeq(text, m[2], m[3])
                  IN  (IF group # <<>> THEN <<group>> ELSE <<>>)
                      \o MatchAllFromUntrimmed(text, m[1] + 1)

\* text.matchAll(regex): the leftmost match at or after pos, then on from
\* its end; match[1] is pushed trimmed when it is truthy (non-empty).
RECURSIVE MatchAllFrom(_, _)
MatchAllFrom(text, pos) ==
    IF pos > Len(text) THEN <<>>
    ELSE LET m == MatchAt(text, pos)
         IN  IF m = <<>> THEN MatchAllFrom(text, pos + 1)
             ELSE LET group == SubSeq(text, m[2], m[3])
                  IN  (IF group # <<>> THEN <<Trim(group)>> ELSE <<>>)
                      \o MatchAllFrom(text, m[1] + 1)

parseMultiPrompts(text) == MatchAllFrom(text, 1)

\* -------------------------------------------------------- App inputs

\* useState('A friendly cartoon dragon sitting in a field of flowers')
DefaultPrompt == <<"a">>

\* examplePrompts, titles and prompts shortened to their character classes
examplePrompts ==
    << [title |-> <<"f">>, prompt |-> <<"f", ",", "SP", "m", ".">>],
       [title |-> <<"d">>, prompt |-> <<"d", ",", "SP", "r", ".">>] >>

\* `${index + 1}. ${p.title}\n“${p.prompt}”`
FormatItem(p, index) ==
    << <<"1", "2">>[index], ".", "SP" >> \o p.title
        \o <<"LF", "LQ">> \o p.prompt \o <<"RQ">>

\* items.map((p, index) => ...).join('\n\n'), from the item at index on
RECURSIVE FormatItems(_, _)
FormatItems(items, index) ==
    IF index > Len(items) THEN <<>>
    ELSE (IF index = 1 THEN <<>> ELSE <<"LF", "LF">>)
         \o FormatItem(items[index], index) \o FormatItems(items, index + 1)

ExampleItem(index) == FormatItem(examplePrompts[index], index)

\* examplePrompts.map(...).join('\n\n')
RECURSIVE JoinItems(_)
JoinItems(index) ==
    IF index > Len(examplePrompts) THEN <<>>
    ELSE (IF index = 1 THEN <<>> ELSE <<"LF", "LF">>)
         \o ExampleItem(index) \o JoinItems(index + 1)

multiPrompt == JoinItems(1)

\* What the user types into the textarea: a blank text and a padded prompt
Texts ==
    { <<"SP", "LF">>,
      <<"SP", "a", "SP">> }

\* parseInt(e.target.value, 10) for what the user types into the "Images:"
\* input: NaN (for ""), or an integer
ParsedInputs ==
    {[nan |-> TRUE, n |-> 0]}
        \cup {[nan |-> FALSE, n |-> v] : v \in {-1, 0, 2, MaxTyped}}

Min(a, b) == IF a < b THEN a ELSE b

Max(a, b) == IF a > b THEN a ELSE b

\* Math.max(1, Math.min(5, parseInt(e.target.value, 10) || 1))
ClampImages(parsed) ==
    Max(MinImages, Min(MaxImages, IF parsed.nan \/ parsed.n = 0 THEN 1 ELSE parsed.n))

GenerationModes == {"both", "original", "coloring"}

\* `A coloring book page of: ${niche}, with intricate patterns ... white.`
NichePrompt(niche) == <<"c", ":", "SP">> \o niche \o <<",", "SP", "w", ".">>

\* A variant: the fallback repeats the prompt as typed, untrimmed
promptsToGenerateUntrimmed(text, n) ==
    LET individualPrompts == parseMultiPrompts(text)
    IN  IF Len(individualPrompts) > 0
        THEN individualPrompts
        ELSE [k \in 1..n |-> text]

\* individualPrompts.length > 0 ? individualPrompts
\*                              : Array(numberOfImages).fill(prompt.trim())
promptsToGenerate(text, n) ==
    LET individualPrompts == parseMultiPrompts(text)
    IN  IF Len(individualPrompts) > 0
        THEN individualPrompts
        ELSE [k \in 1..n |-> Trim(text)]

\* ------------------------------------------------------------- state

VARIABLES
    \* App's useState cells
    prompt, numberOfImages, generationMode, isLoading, error, generatedImages,
    generationProgress, trendingNiches, isFetchingNiches, nicheError, history,
    isHistoryPanelOpen,
    \* localStorage['generationHistory']: <<>> when the key is absent, else
    \* <<list>>, the JSON text of a list
    storage,
    \* the service module's cached client (NoClient, or the client's rank) and
    \* whether process.env.API_KEY is set
    ai, apiKey,
    \* the network calls awaiting their answer, in the order issued
    inflight,
    \* the running handleGenerate call: its position, the values its closure
    \* captured at the submit (prompt, generationMode, history), its locals
    gen,
    \* the clock read by new Date() and Date.now()
    now,
    \* history variables: the calls issued by the last batch submitted; how
    \* that batch ended, with a bit that flips at every accepted submit;
    \* whether no other handler has run since that submit
    issued, batch, quiet

vars ==
    <<prompt, numberOfImages, generationMode, isLoading, error, generatedImages,
      generationProgress, trendingNiches, isFetchingNiches, nicheError, history,
      isHistoryPanelOpen, storage, ai, apiKey, inflight, gen, now, issued, batch,
      quiet>>

uiInputs == <<prompt, numberOfImages, generationMode>>

nicheState == <<trendingNiches, isFetchingNiches, nicheError>>

display == <<isLoading, error, generatedImages, generationProgress>>

\* What only handleGenerate and the calls' settling change
running == <<gen, now, issued, batch, apiKey>>

\* What a handleGenerate call reads and writes, as one record
Snapshot ==
    [isLoading |-> isLoading, error |-> error, generatedImages |-> generatedImages,
     generationProgress |-> generationProgress, history |-> history,
     storage |-> storage, ai |-> ai, inflight |-> inflight, gen |-> gen,
     issued |-> issued, batch |-> batch, quiet |-> quiet, now |-> now]

Apply(st) ==
    /\ isLoading' = st.isLoading
    /\ error' = st.error
    /\ generatedImages' = st.generatedImages
    /\ generationProgress' = st.generationProgress
    /\ history' = st.history
    /\ storage' = st.storage
    /\ ai' = st.ai
    /\ inflight' = st.inflight
    /\ gen' = st.gen
    /\ issued' = st.issued
    /\ batch' = st.batch
    /\ quiet' = st.quiet
    /\ now' = st.now

\* --------------------------------------------------------- messages

FailedPrefix == "Failed to generate images: "

NoKeyMessage == "API_KEY environment variable not set"

SaveErrorMessage == <<"Could not save generation history.">>

FetchPrefix == "Failed to fetch trending niches: "

\* The message of the Error a helper throws when its response holds no image
InvalidDataMessage(kind) ==
    CASE kind = "original" ->
           "Failed to generate original image. The model did not return valid image data."
      [] kind = "coloringFromImage" ->
           "Failed to generate coloring page. The model did not return valid image data."
      [] kind = "coloringFromPrompt" ->
           "Failed to generate coloring page from prompt. The model did not return valid image data."

\* ------------------------------------------------------ the service

ImageKinds == {"original", "coloringFromImage", "coloringFromPrompt"}

\* getAiClient throws when no client is cached and the key is not set
getAiClientThrows == ai = NoClient /\ ~apiKey

\* A variant: no cache, a client is constructed at every call
getAiClientUncached(cached) == cached + 1

\* The client getAiClient returns when it does not throw: the cached one,
\* or a new one, which it caches
getAiClient(cached) == IF cached # NoClient THEN cached ELSE cached + 1

\* What the API may answer to an image call: a response with an inlineData
\* part holding data (an image of what the call sent: "o" in colour, "c" in
\* line art), one whose data is the empty string, one without such
\* a part, or a rejection with an Error (the client rejects with nothing
\* else, so the service's "unknown error" branch is never taken).
ImageAnswers(call) ==
    { [type |-> "response", part |-> TRUE,
       data |-> (IF call.kind = "original" THEN <<"o">> ELSE <<"c">>)
                    \o call.input],
      [type |-> "response", part |-> TRUE, data |-> <<>>],
      [type |-> "response", part |-> FALSE, data |-> Null],
      [type |-> "reject", part |-> FALSE, data |-> <<"api error">>] }

\* A variant: only the presence of the part is tested
InvalidImageDataUnlessEmpty(answer) == ~answer.part

\* !imagePart || !('inlineData' in imagePart) || !imagePart.inlineData?.data
InvalidImageData(answer) ==
    ~answer.part \/ answer.data = Null \/ answer.data = <<>>

\* The message generateColoringBookImages rethrows with for a failed call
\* (<<>> when the call succeeded): its catch wraps an Error's message.
GenerationFailure(call, answer) ==
    CASE answer.type = "reject" -> <<FailedPrefix>> \o answer.data
      [] InvalidImageData(answer) -> <<FailedPrefix, InvalidDataMessage(call.kind)>>
      [] OTHER -> <<>>

\* The first call generateColoringBookImages(prompt, mode) issues
FirstCall(text, mode) ==
    [kind |-> IF mode = "coloring" THEN "coloringFromPrompt" ELSE "original",
     input |-> text]

\* A variant: mode 'both' stops after the original image
NeverColoringCall(call, mode) == FALSE

\* Whether the call that just returned data is followed by a second call
\* for the same prompt: generateColoringPageFromImage in mode 'both'
NeedsColoringCall(call, mode) == mode = "both" /\ call.kind = "original"

\* generateColoringPageFromImage(originalImageBase64)
ColoringCall(originalImageBase64) ==
    [kind |-> "coloringFromImage", input |-> originalImageBase64]

\* What generateColoringBookImages returns once its last call returned data
ServiceResult(call, data, originalImageBase64) ==
    CASE call.kind = "original" -> [originalImage |-> data, coloringPageImage |-> Null]
      [] call.kind = "coloringFromPrompt" ->
           [originalImage |-> Null, coloringPageImage |-> data]
      [] call.kind = "coloringFromImage" ->
           [originalImage |-> originalImageBase64, coloringPageImage |-> data]

\* x ? `data:image/png;base64,${x}` : null
DataUrl(x) == IF x = Null \/ x = <<>> THEN Null ELSE <<"data:image/png;base64,">> \o x

newImagePair(result) ==
    [original |-> DataUrl(result.originalImage),
     coloring |-> DataUrl(result.coloringPageImage)]

\* ---------------------------------------------------------- storage

JSONstringify(list) == <<list>>

JSONparse(json) == json[1]

\* A list written by an earlier session: n items, newest first
StoredItem(k) ==
    [id |-> [iso |-> -k], prompt |-> DefaultPrompt,
     images |-> <<[original |-> DataUrl(<<"o">>), coloring |-> DataUrl(<<"c">>)]>>,
     timestamp |-> -k]

StoredHistory(n) == [k \in 1..n |-> StoredItem(k)]

InitialStorage ==
    {<<>>, JSONstringify(StoredHistory(HistoryCap))}

\* .slice(0, 10)
Slice(list, n) == SubSeq(list, 1, Min(n, Len(list)))

Idle ==
    [pc |-> "idle", prompt |-> <<>>, mode |-> "both", history |-> <<>>,
     prompts |-> <<>>, i |-> 0, results |-> <<>>, original |-> Null]

\* The state after App has mounted and its effect has read the storage
Init ==
    /\ prompt = DefaultPrompt
    /\ numberOfImages = 1
    /\ generationMode = "both"
    /\ isLoading = FALSE
    /\ error = Null
    /\ generatedImages = <<>>
    /\ generationProgress = [current |-> 0, total |-> 0]
    /\ trendingNiches = <<>>
    /\ isFetchingNiches = FALSE
    /\ nicheError = Null
    /\ isHistoryPanelOpen = FALSE
    /\ storage \in InitialStorage
    /\ history = IF storage # <<>> THEN JSONparse(storage) ELSE <<>>
    /\ ai = NoClient
    /\ apiKey \in BOOLEAN
    /\ inflight = <<>>
    /\ gen = Idle
    /\ now = 0
    /\ issued = <<>>
    /\ batch = [outcome |-> "none", bit |-> FALSE]
    /\ quiet = TRUE

\* ---------------------------------------------------- handleGenerate

Remove(seq, k) == SubSeq(seq, 1, k - 1) \o SubSeq(seq, k + 1, Len(seq))

\* A variant: setItem outside any try, its exception escaping
saveHistoryUncaught(st, newHistory, writeOk) ==
    [st EXCEPT !.history = newHistory,
               !.storage = IF writeOk THEN JSONstringify(newHistory) ELSE @,
               !.error = IF writeOk THEN @ ELSE <<"QuotaExceededError">>,
               !.batch.outcome = IF writeOk \/ @ = "none" THEN @ ELSE "failed"]

\* saveHistory(newHistory): setHistory, then setItem in a try whose catch
\* sets the error; writeOk is whether setItem returns
saveHistory(st, newHistory, writeOk) ==
    [st EXCEPT !.history = newHistory,
               !.storage = IF writeOk THEN JSONstringify(newHistory) ELSE @,
               !.error = IF writeOk THEN @ ELSE SaveErrorMessage]

\* A variant: the item takes the prompt state of the moment it is built
newHistoryItemOfState(g, clock) ==
    [id |-> [iso |-> clock], prompt |-> Trim(prompt), images |-> g.results,
     timestamp |-> clock]

\* { id: new Date().toISOString(), prompt: prompt.trim(), images: results,
\*   timestamp: Date.now() }
newHistoryItem(g, clock) ==
    [id |-> [iso |-> clock], prompt |-> Trim(g.prompt), images |-> g.results,
     timestamp |-> clock]

\* A variant: no slice
updatedHistoryUncapped(item, hist) == <<item>> \o hist

\* [newHistoryItem, ...history].slice(0, 10)
updatedHistory(item, hist) == Slice(<<item>> \o hist, HistoryCap)

\* The awaited generateColoringBookImages call has thrown
Thrown(st) == [st EXCEPT !.batch.outcome = "failed"]

\* setIsLoading(false) of the finally block; the call has returned
Finally(st) == [st EXCEPT !.isLoading = FALSE, !.gen = Idle]

\* A variant: the catch saves what the batch has collected
CaughtSavingResults(st, message) ==
    Finally(saveHistory([st EXCEPT !.error = message],
                        updatedHistory(newHistoryItem(st.gen, st.now),
                                       st.gen.history),
                        TRUE))

\* catch (err): setError(err.message); every value the service throws is an
\* Error, so the 'An unknown error occurred.' branch is never taken
Caught(st, message) ==
    Finally([st EXCEPT !.error = message])

\* The statements after the loop: the item is built and saved
Completed(st, g, writeOk) ==
    Finally(saveHistory([st EXCEPT !.batch.outcome = "completed"],
                        updatedHistory(newHistoryItem(g, st.now), g.history),
                        writeOk))

\* A call leaves: it is awaited, and logged for the running batch
Issue(st, g, call) ==
    [st EXCEPT !.ai = getAiClient(@),
               !.inflight = Append(@, call),
               !.issued = Append(@, [i |-> g.i, kind |-> call.kind,
                                     input |-> call.input]),
               !.gen = [g EXCEPT !.pc = "await"]]

\* A variant: current: i
ProgressOfCompleted(i, total) == [current |-> i - 1, total |-> total]

\* setGenerationProgress({ current: i + 1, total: totalToGenerate }), the
\* parameter i being the code's i + 1
Progress(i, total) == [current |-> i, total |-> total]

\* The for loop from its head, g.i being the code's i + 1: the progress is set
\* and prompt g.i's first call is issued (or getAiClient throws, which the
\* service rethrows wrapped); past the last prompt the batch completes.
Loop(st, g, writeOk) ==
    IF g.i <= Len(g.prompts)
    THEN LET shown == [st EXCEPT !.generationProgress =
                                     Progress(g.i, Len(g.prompts))]
         IN  IF st.ai = NoClient /\ ~apiKey
             THEN Caught(Thrown(shown), <<FailedPrefix, NoKeyMessage>>)
             ELSE Issue(shown, g, FirstCall(g.prompts[g.i], g.mode))
    ELSE Completed(st, g, writeOk)

\* A variant: the try inside the loop, which goes on with the next prompt
RejectedContinues(st, g, message, writeOk) ==
    Loop([st EXCEPT !.error = message],
         [g EXCEPT !.i = @ + 1, !.original = Null], writeOk)

\* The awaited service call throws: control leaves the loop for the catch
Rejected(st, g, message, writeOk) == Caught(st, message)

\* A variant: only the blank prompt is tested
SubmitIgnoredWhenBlank == Trim(prompt) = <<>>

\* if (!prompt.trim() || isLoading) return;
SubmitIgnored == Trim(prompt) = <<>> \/ isLoading

\* The form's submit: handleGenerate up to its first pending await
handleGenerate ==
    /\ now < MaxTime
    /\ \E writeOk \in BOOLEAN :
         IF SubmitIgnored
         THEN UNCHANGED vars
         ELSE /\ Apply(Loop([Snapshot EXCEPT !.isLoading = TRUE, !.error = Null,
                                             !.generatedImages = <<>>,
                                             !.issued = <<>>, !.quiet = TRUE,
                                             !.batch =
                                               [outcome |-> "running",
                                                bit |-> ~batch.bit]],
                            [pc |-> "await", prompt |-> prompt,
                             mode |-> generationMode, history |-> history,
                             prompts |-> promptsToGenerate(prompt, numberOfImages),
                             i |-> 1, results |-> <<>>, original |-> Null],
                            writeOk))
              /\ UNCHANGED <<uiInputs, nicheState, isHistoryPanelOpen, apiKey>>

\* An image call settles and handleGenerate runs on to its next await, or
\* to its end.  The answer took one tick of the clock.
ImageCallSettles ==
    \E k \in 1..Len(inflight) :
      /\ inflight[k].kind \in ImageKinds
      /\ \E answer \in ImageAnswers(inflight[k]), writeOk \in BOOLEAN :
           LET call == inflight[k]
               st == [Snapshot EXCEPT !.inflight = Remove(inflight, k),
                                      !.now = now + 1]
               failure == GenerationFailure(call, answer)
           IN  Apply(
                 IF failure # <<>> THEN Rejected(Thrown(st), gen, failure, writeOk)
                 ELSE IF NeedsColoringCall(call, gen.mode)
                 THEN Issue(st, [gen EXCEPT !.original = answer.data],
                            ColoringCall(answer.data))
                 ELSE LET pair == newImagePair(
                                    ServiceResult(call, answer.data, gen.original))
                      IN  Loop([st EXCEPT !.generatedImages = Append(@, pair)],
                               [gen EXCEPT !.i = @ + 1,
                                           !.results = Append(@, pair),
                                           !.original = Null],
                               writeOk))
      /\ UNCHANGED <<uiInputs, nicheState, isHistoryPanelOpen, apiKey>>

\* ------------------------------------------------- the other handlers

\* A handler other than handleGenerate runs, the user acting
UserActs == now < MaxTime /\ quiet' = (quiet /\ batch.outcome = "none")

\* What the API may answer to the niche call: JSON with a niches array, JSON
\* without one, or a rejection with an Error
NicheAnswers ==
    { [type |-> "response", niches |-> << <<"m">> >>, isArray |-> TRUE],
      [type |-> "response", niches |-> <<>>, isArray |-> FALSE],
      [type |-> "reject", niches |-> <<>>, isArray |-> FALSE] }

\* The message getTrendingNiches rethrows with (<<>> when it returns)
NicheFailure(answer) ==
    CASE answer.type = "reject" -> <<FetchPrefix, "api error">>
      [] ~answer.isArray ->
           <<FetchPrefix,
             "Could not parse the list of trending niches from the AI response.">>
      [] OTHER -> <<>>

\* 'Get Trending Niches', disabled={isFetchingNiches || isLoading}
handleFetchNiches ==
    /\ UserActs
    /\ ~isFetchingNiches /\ ~isLoading
    /\ trendingNiches' = <<>>
    /\ IF getAiClientThrows
       THEN /\ nicheError' = <<FetchPrefix, NoKeyMessage>>
            /\ isFetchingNiches' = FALSE
            /\ UNCHANGED <<ai, inflight>>
       ELSE /\ nicheError' = Null
            /\ isFetchingNiches' = TRUE
            /\ ai' = getAiClient(ai)
            /\ inflight' = Append(inflight, [kind |-> "niches", input |-> <<>>])
    /\ UNCHANGED <<uiInputs, display, history, storage, isHistoryPanelOpen, running>>

\* The niche call settles and handleFetchNiches runs to its end (a short
\* text call: it may settle within the tick it was issued in)
NicheCallSettles ==
    \E k \in 1..Len(inflight), answer \in NicheAnswers :
      /\ inflight[k].kind = "niches"
      /\ inflight' = Remove(inflight, k)
      /\ isFetchingNiches' = FALSE
      /\ IF NicheFailure(answer) # <<>>
         THEN nicheError' = NicheFailure(answer) /\ UNCHANGED trendingNiches
         ELSE trendingNiches' = answer.niches /\ UNCHANGED nicheError
      /\ UNCHANGED <<uiInputs, display, history, storage, isHistoryPanelOpen, ai,
                     running, quiet>>

\* A niche button: handleNicheClick(niche)
handleNicheClick ==
    \E k \in 1..Len(trendingNiches) :
      /\ UserActs
      /\ prompt' = NichePrompt(trendingNiches[k])
      /\ UNCHANGED <<numberOfImages, generationMode, display, nicheState, history,
                     storage, isHistoryPanelOpen, ai, inflight, running>>

\* An item of the open history panel: handleSelectHistoryItem(item)
handleSelectHistoryItem ==
    \E k \in 1..Len(history) :
      /\ UserActs
      /\ isHistoryPanelOpen
      /\ prompt' = history[k].prompt
      /\ generatedImages' = history[k].images
      /\ isHistoryPanelOpen' = FALSE
      /\ UNCHANGED <<numberOfImages, generationMode, isLoading, error,
                     generationProgress, nicheState, history, storage, ai, inflight,
                     running>>

\* 'Clear All History', rendered when history.length > 0: saveHistory([])
handleClearHistory ==
    \E writeOk \in BOOLEAN :
      /\ UserActs
      /\ isHistoryPanelOpen /\ Len(history) > 0
      /\ LET st == saveHistory(Snapshot, <<>>, writeOk)
         IN  history' = st.history /\ storage' = st.storage /\ error' = st.error
      /\ UNCHANGED <<uiInputs, isLoading, generatedImages, generationProgress,
                     nicheState, isHistoryPanelOpen, ai, inflight, running>>

\* The history button, and the panel's close button and backdrop
setIsHistoryPanelOpen ==
    /\ UserActs
    /\ isHistoryPanelOpen' = ~isHistoryPanelOpen
    /\ UNCHANGED <<uiInputs, display, nicheState, history, storage, ai, inflight,
                   running>>

\* The textarea, disabled={isLoading}
setPrompt ==
    \E text \in Texts :
      /\ UserActs
      /\ ~isLoading
      /\ prompt' = text
      /\ UNCHANGED <<numberOfImages, generationMode, display, nicheState, history,
                     storage, isHistoryPanelOpen, ai, inflight, running>>

\* The "Images:" input, disabled={isLoading}
setNumberOfImages ==
    \E parsed \in ParsedInputs :
      /\ UserActs
      /\ ~isLoading
      /\ numberOfImages' = ClampImages(parsed)
      /\ UNCHANGED <<prompt, generationMode, display, nicheState, history, storage,
                     isHistoryPanelOpen, ai, inflight, running>>

\* The mode radio buttons, never disabled
setGenerationMode ==
    \E mode \in GenerationModes :
      /\ UserActs
      /\ generationMode' = mode
      /\ UNCHANGED <<prompt, numberOfImages, display, nicheState, history, storage,
                     isHistoryPanelOpen, ai, inflight, running>>

\* 'Use multi-prompt example', disabled={isLoading}
useMultiPromptExample ==
    /\ UserActs
    /\ ~isLoading
    /\ prompt' = multiPrompt
    /\ numberOfImages' = Len(examplePrompts)
    /\ UNCHANGED <<generationMode, display, nicheState, history, storage,
                   isHistoryPanelOpen, ai, inflight, running>>

Next ==
    \/ handleGenerate
    \/ ImageCallSettles
    \/ handleFetchNiches
    \/ NicheCallSettles
    \/ handleNicheClick
    \/ handleSelectHistoryItem
    \/ handleClearHistory
    \/ setIsHistoryPanelOpen
    \/ setPrompt
    \/ setNumberOfImages
    \/ setGenerationMode
    \/ useMultiPromptExample

Spec == Init /\ [][Next]_vars

\* ------------------------------------------- the textarea's contents

\* The texts of at most n characters of chars
RECURSIVE TextsUpTo(_, _)
TextsUpTo(chars, n) ==
    IF n = 0 THEN {<<>>}
    ELSE LET shorter == TextsUpTo(chars, n - 1)
         IN  shorter \cup {Append(t, c) : t \in shorter, c \in chars}

\* What titles and prompts are written with: no quote and no line break
ItemChars == {"1", ".", "SP", "a"}

\* Lists of (title, prompt) pairs: one item of texts up to MaxItemText, or
\* two items of texts of at most one character
ItemLists ==
    { <<[title |-> t, prompt |-> q]>> :
        t \in TextsUpTo(ItemChars, MaxItemText),
        q \in TextsUpTo(ItemChars, MaxItemText) }
      \cup
    { <<[title |-> t1, prompt |-> q1], [title |-> t2, prompt |-> q2]>> :
        t1 \in TextsUpTo(ItemChars, 1), q1 \in TextsUpTo(ItemChars, 1),
        t2 \in TextsUpTo(ItemChars, 1), q2 \in TextsUpTo(ItemChars, 1) }

\* Each list with the text the multi-prompt format gives it
Formatted ==
    {[items |-> items, text |-> FormatItems(items, 1)] : items \in ItemLists}

\* One-line texts: digits, dots, spaces, letters and quotes, no line break
LineTexts == TextsUpTo({"1", ".", "SP", "a", "LQ", "RQ"}, MaxLine)

\* The App after mount with the key set and nothing stored, the user having
\* typed a text in the multi-prompt format or a one-line text
TextInit ==
    /\ prompt \in {f.text : f \in Formatted} \cup LineTexts
    /\ numberOfImages = 1
    /\ generationMode = "both"
    /\ isLoading = FALSE
    /\ error = Null
    /\ generatedImages = <<>>
    /\ generationProgress = [current |-> 0, total |-> 0]
    /\ trendingNiches = <<>>
    /\ isFetchingNiches = FALSE
    /\ nicheError = Null
    /\ isHistoryPanelOpen = FALSE
    /\ storage = <<>>
    /\ history = <<>>
    /\ ai = NoClient
    /\ apiKey = TRUE
    /\ inflight = <<>>
    /\ gen = Idle
    /\ now = 0
    /\ issued = <<>>
    /\ batch = [outcome |-> "none", bit |-> FALSE]
    /\ quiet = TRUE

\* The text is submitted and its batch runs
TextNext ==
    \/ handleGenerate
    \/ ImageCallSettles

TextSpec == TextInit /\ [][TextNext]_vars

\* -------------------------------------------------------- properties

Last(seq) == seq[Len(seq)]

\* The entries of log that are calls for prompt j
CallsFor(log, j) == SelectSeq(log, LAMBDA c : c.i = j)

\* The entries of log that open a prompt's generation
FirstCalls(log) == SelectSeq(log, LAMBDA c : c.kind # "coloringFromImage")

ImageCallsIn(net) == SelectSeq(net, LAMBDA c : c.kind \in ImageKinds)

\* The data of the valid answer to a call
ReturnedData(call) ==
    (CHOOSE a \in ImageAnswers(call) : a.part /\ a.data # <<>> /\ a.data # Null).data

BatchFails == batch.outcome = "running" /\ batch'.outcome = "failed"

BatchCompletes == batch.outcome = "running" /\ batch'.outcome = "completed"

SubmitAccepted == batch'.bit # batch.bit

\* C1: in every reachable state the in-memory history and the list stored
\* under 'generationHistory' hold at most 10 entries.
C1_HistoryCapped ==
    /\ Len(history) <= HistoryCap
    /\ storage # <<>> => Len(JSONparse(storage)) <= HistoryCap

\* A batch completed on a full history: its item heads the ten kept
C1_Witness ==
    /\ Len(history) = HistoryCap
    /\ history[1].timestamp > 0
    /\ storage = JSONstringify(history)

\* C2: when the generation for prompt k fails, no call is issued for a later
\* prompt, prompt k is not tried again, error is a message and isLoading is
\* false; nothing more is issued until the next submit.
C2_FailureAborts ==
    [][ /\ BatchFails =>
            /\ error' # Null /\ error' # <<>>
            /\ ~isLoading'
            /\ gen'.pc = "idle"
            /\ ImageCallsIn(inflight') = <<>>
            /\ issued' = issued
            /\ \A j \in 1..Len(gen.prompts) :
                 /\ j > gen.i => CallsFor(issued', j) = <<>>
                 /\ Len(FirstCalls(CallsFor(issued', j))) <= 1
        /\ (batch.outcome = "failed" /\ ~SubmitAccepted) =>
            issued' = issued /\ ImageCallsIn(inflight') = <<>>
      ]_vars

\* The batch failed at its second prompt of five
C2_Witness ==
    /\ batch.outcome = "failed"
    /\ generationProgress = [current |-> 2, total |-> 5]
    /\ error # Null
    /\ ~isLoading

\* C3: at most one network call is in flight at any moment, image calls and
\* the niche call counted together.
C3_OneCallInFlight == Len(inflight) <= 1

\* The calls a batch in closure g has issued, as log: per prompt, one call in
\* the modes 'original' and 'coloring'; in 'both' the original call and then,
\* once it returned, the coloring call on the image returned; nothing for a
\* prompt not reached; and the one call awaited is the last one issued.
CallsInSequence(log, g, net) ==
    /\ \A j \in 1..Len(g.prompts) :
         LET cs == CallsFor(log, j)
             first == [i |-> j,
                       kind |-> IF g.mode = "coloring" THEN "coloringFromPrompt"
                                ELSE "original",
                       input |-> g.prompts[j]]
             second == [i |-> j, kind |-> "coloringFromImage",
                        input |-> ReturnedData(first)]
         IN  IF j > g.i THEN cs = <<>>
             ELSE IF g.mode # "both" THEN cs = <<first>>
             ELSE IF j < g.i THEN cs = <<first, second>>
             ELSE cs = <<first>> \/ cs = <<first, second>>
    /\ \A a, b \in 1..Len(log) : a <= b => log[a].i <= log[b].i
    /\ Len(ImageCallsIn(net)) = 1
    /\ LET last == log[Len(log)]
       IN  ImageCallsIn(net) = <<[kind |-> last.kind, input |-> last.input]>>

\* C4 as stated: every generateColoringBookImages call issues its network
\* call (one in 'original' and 'coloring'; in 'both' the coloring call after
\* the original returned, on its image, and not when it failed).
C4_EveryGenerationCalls ==
    [][ /\ SubmitAccepted => gen'.pc = "await" /\ Len(issued') = 1
        /\ gen'.pc = "await" => CallsInSequence(issued', gen', inflight')
      ]_vars

\* C4 amended: the same with the API key set; with no key and no client no
\* call is issued at all.
C4_GenerationCallsWithKey ==
    [][ /\ (SubmitAccepted /\ apiKey) => gen'.pc = "await" /\ Len(issued') = 1
        /\ (SubmitAccepted /\ ~apiKey) => gen'.pc = "idle" /\ issued' = <<>>
        /\ gen'.pc = "await" => CallsInSequence(issued', gen', inflight')
      ]_vars

\* In mode 'both' the second prompt's coloring call is awaited
C4_Witness ==
    /\ gen.pc = "await"
    /\ gen.mode = "both"
    /\ Len(issued) = 4
    /\ issued[4].kind = "coloringFromImage"

\* C5 as stated: while a batch runs, total is the number of its prompts and
\* current the number of prompts whose generation has completed.
C5_CurrentCountsCompleted ==
    isLoading =>
        /\ generationProgress.total = Len(gen.prompts)
        /\ generationProgress.current = Len(gen.results)
        /\ 0 <= generationProgress.current
        /\ generationProgress.current <= generationProgress.total

\* C5 amended: current counts the prompts started, the completed ones and
\* the one being generated; 0 <= current <= total always.
C5_CurrentCountsStarted ==
    /\ 0 <= generationProgress.current
    /\ generationProgress.current <= generationProgress.total
    /\ isLoading =>
        /\ generationProgress.total = Len(gen.prompts)
        /\ generationProgress.current = Len(gen.results) + 1

\* The last of five prompts is being generated
C5_Witness ==
    /\ isLoading
    /\ generationProgress = [current |-> 5, total |-> 5]
    /\ Len(gen.results) = 4

\* C6: the prompts sent are the parsed prompts, in order, when there is at
\* least one, else the trimmed prompt numberOfImages times; numberOfImages
\* is always in 1..5.
C6_PromptsSent ==
    /\ numberOfImages \in MinImages..MaxImages
    /\ gen.pc = "await" =>
         LET parsed == parseMultiPrompts(gen.prompt)
             expected == IF Len(parsed) >= 1 THEN parsed
                         ELSE [j \in 1..numberOfImages |-> Trim(gen.prompt)]
             sent == FirstCalls(issued)
         IN  /\ Len(sent) = gen.i
             /\ gen.i <= Len(expected)
             /\ \A j \in 1..Len(sent) : sent[j].input = expected[j]
             /\ generationProgress.total = Len(expected)
             /\ Len(parsed) = 0 => Len(expected) \in MinImages..MaxImages

\* Both parsed prompts were sent although numberOfImages is 5
C6_Witness ==
    /\ gen.pc = "await"
    /\ Len(parseMultiPrompts(gen.prompt)) = 2
    /\ numberOfImages = MaxImages
    /\ Len(FirstCalls(issued)) = 2
    /\ issued[1].input # issued[Len(issued)].input

\* The pair generated for a prompt in a mode
PairOf(mode, text) ==
    [original |-> IF mode = "coloring" THEN Null
                  ELSE <<"data:image/png;base64,", "o">> \o text,
     coloring |-> CASE mode = "original" -> Null
                    [] mode = "coloring" -> <<"data:image/png;base64,", "c">> \o text
                    [] mode = "both" ->
                         <<"data:image/png;base64,", "c", "o">> \o text]

\* C7: a batch that fails at prompt k leaves history and storage as they
\* are, and, no other handler having run since the submit, generatedImages
\* holds the k - 1 pairs completed before, in prompt order.
C7_FailureKeepsHistory ==
    [][ /\ BatchFails =>
            /\ history' = history /\ storage' = storage
            /\ quiet => generatedImages' =
                          [j \in 1..(gen.i - 1) |-> PairOf(gen.mode, gen.prompts[j])]
        /\ (SubmitAccepted /\ batch'.outcome = "failed") =>
            /\ history' = history /\ storage' = storage
            /\ generatedImages' = <<>>
      ]_vars

\* The example batch failed at its second prompt, undisturbed
C7_Witness ==
    /\ batch.outcome = "failed"
    /\ quiet
    /\ generationProgress = [current |-> 2, total |-> 2]
    /\ Len(generatedImages) = 1
    /\ Len(history) = HistoryCap

\* C8: when setItem throws, saveHistory catches it: error is 'Could not
\* save generation history.', the in-memory history is the new list all the
\* same, and a batch being completed ends completed with isLoading false.
C8_SaveFailureCaught ==
    [][ (history' # history /\ storage' # JSONstringify(history')) =>
            /\ storage' = storage
            /\ error' = SaveErrorMessage
            /\ now' = now => history' = <<>> /\ UNCHANGED <<isLoading, batch>>
            /\ now' # now =>
                 /\ history' = Slice(<<history'[1]>> \o gen.history, HistoryCap)
                 /\ history'[1].timestamp = now'
                 /\ history'[1].images = gen.results \o <<Last(generatedImages')>>
                 /\ ~isLoading'
                 /\ gen'.pc = "idle"
                 /\ batch'.outcome = "completed"
      ]_vars

\* A batch completed although its write failed
C8_Witness ==
    /\ batch.outcome = "completed"
    /\ error = SaveErrorMessage
    /\ ~isLoading
    /\ Len(history) > 0
    /\ storage # JSONstringify(history)
    /\ history[1].timestamp > 0

\* C9: when a successful batch is saved its item heads the history, the
\* items present before follow in their order, the eleventh is dropped; the
\* timestamps never increase from head to tail.
C9_NewestFirst ==
    [][ /\ BatchCompletes =>
            /\ history'[1].timestamp = now'
            /\ history' = Slice(<<history'[1]>> \o history, HistoryCap)
        /\ \A j \in 1..(Len(history') - 1) :
             history'[j].timestamp >= history'[j + 1].timestamp
      ]_vars

\* The shape a mode dictates
ShapeOf(mode, pair) ==
    /\ mode # "coloring" <=> pair.original # Null
    /\ mode # "original" <=> pair.coloring # Null
    /\ pair.original # Null => Len(pair.original) > 1
    /\ pair.coloring # Null => Len(pair.coloring) > 1

NeverBothNull(pairs) ==
    \A j \in 1..Len(pairs) : pairs[j].original # Null \/ pairs[j].coloring # Null

\* C10: every result has the shape its mode dictates; a response without
\* image data gives no result but an error starting 'Failed to generate
\* images: '; no pair with both images null is in generatedImages or history.
C10_ResultShapes ==
    /\ gen.pc = "await" =>
         \A j \in 1..Len(gen.results) : ShapeOf(gen.mode, gen.results[j])
    /\ NeverBothNull(generatedImages)
    /\ \A k \in 1..Len(history) : NeverBothNull(history[k].images)
    /\ storage # <<>> =>
         \A k \in 1..Len(JSONparse(storage)) :
            NeverBothNull(JSONparse(storage)[k].images)
    /\ (batch.outcome = "failed" /\ quiet) => Head(error) = FailedPrefix

\* After one pair the coloring call's response held no image data
C10_Witness ==
    /\ batch.outcome = "failed"
    /\ quiet
    /\ error = <<FailedPrefix, InvalidDataMessage("coloringFromImage")>>
    /\ Len(generatedImages) = 1

\* The items of list created at clock
CreatedAt(list, clock) == SelectSeq(list, LAMBDA item : item.timestamp = clock)

\* C11: a successful batch creates exactly one history item; its prompt is
\* the trimmed textarea text of the submit, whatever the prompt state has
\* become since, and its images are one pair per prompt, in prompt order.
C11_OneItemPerBatch ==
    [][ /\ (SubmitAccepted /\ gen'.pc = "await") => gen'.prompt = prompt
        /\ (gen.pc = "await" /\ gen'.pc = "await") =>
             gen'.prompt = gen.prompt /\ gen'.prompts = gen.prompts
        /\ BatchCompletes =>
             /\ Len(CreatedAt(history', now')) = 1
             /\ Len(history') <= Len(gen.history) + 1
             /\ history'[1].timestamp = now'
             /\ history'[1].prompt = Trim(gen.prompt)
             /\ history'[1].images =
                  [j \in 1..Len(gen.prompts) |-> PairOf(gen.mode, gen.prompts[j])]
             /\ storage' # storage => JSONparse(storage') = history'
      ]_vars

\* A niche was clicked while the batch ran: the item has the prompt submitted
C11_Witness ==
    /\ batch.outcome = "completed"
    /\ prompt = NichePrompt(<<"m">>)
    /\ Len(history) > 0
    /\ history[1].timestamp = now
    /\ history[1].prompt = DefaultPrompt
    /\ Len(history[1].images) = 2

NoLineBreak(text) == \A k \in 1..Len(text) : text[k] \notin LineBreaks

NonBlankPrompts(items) == \A j \in 1..Len(items) : Trim(items[j].prompt) # <<>>

TrimmedPrompts(items) == [j \in 1..Len(items) |-> Trim(items[j].prompt)]

C13_KeyAndClient ==
    [][ /\ ~apiKey =>
            /\ ai' = NoClient
            /\ inflight' = <<>> /\ issued' = <<>>
            /\ ~isLoading' /\ ~isFetchingNiches' /\ gen'.pc = "idle"
        /\ (~apiKey /\ handleGenerate /\ ~SubmitIgnored) =>
            /\ SubmitAccepted
            /\ error' = <<FailedPrefix, NoKeyMessage>>
            /\ batch'.outcome = "failed"
        /\ (~apiKey /\ handleFetchNiches) =>
            /\ nicheError' = <<FetchPrefix, NoKeyMessage>>
            /\ trendingNiches' = <<>>
        /\ ai' \in {NoClient, NoClient + 1}
        /\ ai # NoClient => ai' = ai
        /\ apiKey' = apiKey
      ]_vars

\* Without the key a second generate attempt and a niche fetch have ended
C13_Witness ==
    /\ ~apiKey
    /\ ai = NoClient
    /\ error = <<FailedPrefix, NoKeyMessage>>
    /\ nicheError = <<FetchPrefix, NoKeyMessage>>
    /\ batch = [outcome |-> "failed", bit |-> FALSE]
    /\ ~isLoading /\ ~isFetchingNiches

Items(list) == {list[k] : k \in 1..Len(list)}

Stored(json) == IF json = <<>> THEN {} ELSE Items(JSONparse(json))

\* The history was cleared since the running batch was submitted
ClearedWhileRunning == gen.pc = "await" /\ gen.history # <<>> /\ history = <<>>

\* C14: after 'Clear All History' no entry that existed before the clear
\* reappears in the in-memory history or, the clear having been written, in
\* storage, a batch being in progress when the clear happened.
C14_ClearedNeverReturns ==
    [][ ClearedWhileRunning =>
          \A item \in Items(gen.history) :
            /\ item \notin Items(history')
            /\ storage = JSONstringify(<<>>) => item \notin Stored(storage')
      ]_vars

\* C15: when a batch completes, the generatedImages displayed are the
\* images of the history item created for it, whatever the user did while
\* the batch ran.
C15_DisplayedIsSaved ==
    [][ BatchCompletes => generatedImages' = history'[1].images ]_vars

\* C16: every prompt passed to generateColoringBookImages is non-empty after
\* trimming, whatever text passed the submit guard, on the fallback path
\* and on the multi-prompt path.
C16_PromptsNotBlank ==
    /\ \A j \in 1..Len(gen.prompts) : Trim(gen.prompts[j]) # <<>>
    /\ \A k \in 1..Len(issued) :
         issued[k].kind # "coloringFromImage" => Trim(issued[k].input) # <<>>

\* A submit in this state is to be ignored
LoadingOrBlank == isLoading \/ Trim(prompt) = <<>>

\* C17: at most one batch is in progress: a submit made while isLoading is
\* true or with a blank prompt issues no call and changes none of isLoading,
\* error, generatedImages, generationProgress, history and storage; a batch
\* starts only from a state that is not loading, with a prompt not blank.
C17_OneBatch ==
    [][ /\ (handleGenerate /\ LoadingOrBlank) =>
            UNCHANGED <<isLoading, error, generatedImages, generationProgress,
                        history, storage, inflight, issued, gen, batch>>
        /\ SubmitAccepted => ~LoadingOrBlank
        /\ (isLoading /\ isLoading') => batch' = batch /\ gen'.prompts = gen.prompts
        /\ isLoading' <=> gen'.pc = "await"
        /\ Len(ImageCallsIn(inflight')) <= 1
      ]_vars

\* A batch is running, its first call in flight, and the user can still act
C17_Witness ==
    /\ isLoading
    /\ now < MaxTime
    /\ gen.pc = "await"
    /\ Len(ImageCallsIn(inflight)) = 1
    /\ Trim(prompt) # <<>>

====
